---------------------------- MODULE Spec2Model ----------------------------
(***************************************************************************)
(* A model of the FindCare prototype: the provider filter and the table   *)
(* projector of FindCareGradioFigmaUX, its FastAPI request handlers, its  *)
(* constructor, the MongoDB connection helper and the logging bootstrap.   *)
(*                                                                         *)
(* Python strings are sequences of one-character strings, so that strip,  *)
(* upper, lower, "in" and int() are computed and not assumed.  A Python   *)
(* value that reaches a handler from a JSON body is a tagged record       *)
(* [t, s, n]: t is its type, s its characters (a str), n its number (an   *)
(* int) or its length (a list).                                            *)
(***************************************************************************)
EXTENDS Integers, Sequences, FiniteSets, TLC

VARIABLES
    providers,      \* cls.MOCK_PROVIDERS, the Provider Store
    req,            \* the call or HTTP request being served
    resp,           \* what it returned (or the exception it raised)
    ctor,           \* FindCareGradioFigmaUX.__init__: its inputs and position
    serverThread,   \* self._server_thread and the listener running on it
    browserOpened,  \* number of webbrowser.open calls made
    mongo,          \* the ChatHealthyMongoUtilities instances and their MongoClient objects
    mongoRet,       \* outcome of the last call on a helper
    logState,       \* logging_config._CONFIGURED, the root logger, sys.stdout, sys.stderr
    logProcs,       \* the threads calling configure_logging, and the module import
    memo            \* an earlier call of _filter_providers and what it returned

vars == <<providers, req, resp, ctor, serverThread, browserOpened, mongo, mongoRet,
          logState, logProcs, memo>>

httpVars == <<providers, req, resp>>
ctorVars == <<ctor, serverThread, browserOpened>>
mongoVars == <<mongo, mongoRet>>
logVars == <<logState, logProcs>>

-----------------------------------------------------------------------------
(* Bounds of the model *)

\* limits, pages and page sizes are drawn from -1 .. MaxInt
MaxInt == 4
\* record lists handed to build_provider_table have at most MaxListLen entries
MaxListLen == 3
\* database helpers constructed side by side
MaxHelpers == 2
\* further calls of _start_server_and_open_browser on a constructed object
MaxRecalls == 2

-----------------------------------------------------------------------------
(* Python str *)

LowerChars == <<"a", "b", "c", "d", "e", "f", "g", "h", "i", "j", "k", "l", "m",
                "n", "o", "p", "q", "r", "s", "t", "u", "v", "w", "x", "y", "z">>
UpperChars == <<"A", "B", "C", "D", "E", "F", "G", "H", "I", "J", "K", "L", "M",
                "N", "O", "P", "Q", "R", "S", "T", "U", "V", "W", "X", "Y", "Z">>
DigitChars == <<"0", "1", "2", "3", "4", "5", "6", "7", "8", "9">>

Min(a, b) == IF a < b THEN a ELSE b
Max(a, b) == IF a > b THEN a ELSE b

IsSpace(c) == c \in {" ", "\t", "\n"}

\* str.upper() and str.lower(), character by character
UpperChar(c) ==
    IF \E i \in 1..Len(LowerChars) : LowerChars[i] = c
    THEN UpperChars[CHOOSE i \in 1..Len(LowerChars) : LowerChars[i] = c]
    ELSE c
LowerChar(c) ==
    IF \E i \in 1..Len(UpperChars) : UpperChars[i] = c
    THEN LowerChars[CHOOSE i \in 1..Len(UpperChars) : UpperChars[i] = c]
    ELSE c
StrUpper(s) == [i \in 1..Len(s) |-> UpperChar(s[i])]
StrLower(s) == [i \in 1..Len(s) |-> LowerChar(s[i])]

\* str.strip(): drop the leading and the trailing whitespace
RECURSIVE LStrip(_)
LStrip(s) == IF s # <<>> /\ IsSpace(Head(s)) THEN LStrip(Tail(s)) ELSE s
RECURSIVE RStrip(_)
RStrip(s) == IF s # <<>> /\ IsSpace(s[Len(s)]) THEN RStrip(SubSeq(s, 1, Len(s) - 1)) ELSE s
StrStrip(s) == RStrip(LStrip(s))

\* sub in s, for two str
StrContains(sub, s) ==
    \E i \in 0..(Len(s) - Len(sub)) : SubSeq(s, i + 1, i + Len(sub)) = sub

\* x in lst, for a list
ListContains(x, lst) == \E i \in 1..Len(lst) : lst[i] = x

\* seq[a:b], with Python's handling of negative and out-of-range indices
SliceIndex(i, n) == IF i < 0 THEN Max(0, n + i) ELSE Min(i, n)
PySlice(seq, a, b) == SubSeq(seq, SliceIndex(a, Len(seq)) + 1, SliceIndex(b, Len(seq)))

-----------------------------------------------------------------------------
(* Python values from a JSON body *)

None == [t |-> "none", s |-> <<>>, n |-> 0]
Absent == [t |-> "absent", s |-> <<>>, n |-> 0]       \* the key is not in the body
Str(s) == [t |-> "str", s |-> s, n |-> 0]
IntV(n) == [t |-> "int", s |-> <<>>, n |-> n]
ListV(n) == [t |-> "list", s |-> <<>>, n |-> n]        \* a list of n elements

\* bool(v): None, "", 0 and [] are false
Truthy(v) ==
    CASE v.t = "none" -> FALSE
      [] v.t = "str" -> v.s # <<>>
      [] v.t = "int" -> v.n # 0
      [] v.t = "list" -> v.n # 0
      [] OTHER -> FALSE

\* payload.get(key, default)
DictGet(payload, key, default) ==
    IF payload[key].t = "absent" THEN default ELSE payload[key]

DigitValue(c) == (CHOOSE i \in 1..Len(DigitChars) : DigitChars[i] = c) - 1
IsDigit(c) == \E i \in 1..Len(DigitChars) : DigitChars[i] = c

\* the digits of an int literal, "_" allowed singly between digits
RECURSIVE DigitsOk(_, _)
DigitsOk(s, afterDigit) ==
    IF s = <<>> THEN afterDigit
    ELSE IF IsDigit(Head(s)) THEN DigitsOk(Tail(s), TRUE)
    ELSE IF Head(s) = "_" THEN afterDigit /\ Tail(s) # <<>> /\ IsDigit(Head(Tail(s)))
                               /\ DigitsOk(Tail(s), FALSE)
    ELSE FALSE
RECURSIVE DigitsValue(_, _)
DigitsValue(s, acc) ==
    IF s = <<>> THEN acc
    ELSE IF Head(s) = "_" THEN DigitsValue(Tail(s), acc)
    ELSE DigitsValue(Tail(s), 10 * acc + DigitValue(Head(s)))

\* int(x): [exc, val]
StrToInt(s) ==
    LET b == StrStrip(s)
        signed == b # <<>> /\ Head(b) \in {"+", "-"}
        d == IF signed THEN Tail(b) ELSE b
    IN  IF DigitsOk(d, FALSE)
        THEN [exc |-> "none",
              val |-> IF signed /\ Head(b) = "-" THEN 0 - DigitsValue(d, 0) ELSE DigitsValue(d, 0)]
        ELSE [exc |-> "ValueError", val |-> 0]
PyInt(v) ==
    CASE v.t = "int" -> [exc |-> "none", val |-> v.n]
      [] v.t = "str" -> StrToInt(v.s)
      [] OTHER -> [exc |-> "TypeError", val |-> 0]

-----------------------------------------------------------------------------
(* The Provider Store: FindCareGradioFigmaUX.MOCK_PROVIDERS *)

sCA == <<"C", "A">>
sAetna == <<"A", "e", "t", "n", "a">>
sBlueShield == <<"B", "l", "u", "e", " ", "S", "h", "i", "e", "l", "d">>
sUnited == <<"U", "n", "i", "t", "e", "d">>
sCigna == <<"C", "i", "g", "n", "a">>

MOCK_PROVIDERS == <<
    [id |-> "prov-0001", name |-> "Ava Chen, MD",
     specialty |-> <<"F", "a", "m", "i", "l", "y", " ", "M", "e", "d", "i", "c", "i", "n", "e">>,
     city |-> <<"L", "o", "s", " ", "A", "n", "g", "e", "l", "e", "s">>,
     state |-> sCA, rating |-> "4.7",
     accepts_insurance |-> <<sAetna, sBlueShield, sUnited>>, notes |-> <<>>],
    [id |-> "prov-0002", name |-> "Noah Patel, DO",
     specialty |-> <<"D", "e", "r", "m", "a", "t", "o", "l", "o", "g", "y">>,
     city |-> <<"S", "a", "n", "t", "a", " ", "M", "o", "n", "i", "c", "a">>,
     state |-> sCA, rating |-> "4.6",
     accepts_insurance |-> <<sCigna, sBlueShield>>, notes |-> <<>>],
    [id |-> "prov-0003", name |-> "Mia Johnson, MD",
     specialty |-> <<"C", "a", "r", "d", "i", "o", "l", "o", "g", "y">>,
     city |-> <<"P", "a", "s", "a", "d", "e", "n", "a">>,
     state |-> sCA, rating |-> "4.8",
     accepts_insurance |-> <<sAetna, sUnited>>, notes |-> <<>>],
    [id |-> "prov-0004", name |-> "Ethan Park, MD",
     specialty |-> <<"O", "r", "t", "h", "o", "p", "e", "d", "i", "c", " ", "S", "u", "r", "g", "e", "r", "y">>,
     city |-> <<"B", "u", "r", "b", "a", "n", "k">>,
     state |-> sCA, rating |-> "4.5",
     accepts_insurance |-> <<sBlueShield, sUnited>>, notes |-> <<>>] >>

-----------------------------------------------------------------------------
(* _filter_providers *)

\* the four comprehension conditions, given the criterion already a str
StateMatches(p, state) == StrUpper(p.state) = StrUpper(StrStrip(state))
CityMatches(p, city) == StrContains(StrLower(StrStrip(city)), StrLower(p.city))
SpecialtyMatches(p, specialty) == StrContains(StrLower(StrStrip(specialty)), StrLower(p.specialty))
InsuranceMatches(p, insurance) == ListContains(StrStrip(insurance), p.accepts_insurance)

\* the truncation one entry too long: results[: max(1, int(limit)) + 1]
Truncate_OneMore(results, limit) == PySlice(results, 0, Max(1, limit) + 1)

\* the truncation without the floor of 1: results[: int(limit)]
Truncate_NoFloor(results, limit) == PySlice(results, 0, limit)

\* results[: max(1, int(limit))]
Truncate(results, limit) == PySlice(results, 0, Max(1, limit))

\* the condition of the comprehension of one "if crit:" block
CriterionMatches(kind, p, crit) ==
    CASE kind = "state" -> StateMatches(p, crit)
      [] kind = "city" -> CityMatches(p, crit)
      [] kind = "specialty" -> SpecialtyMatches(p, crit)
      [] OTHER -> InsuranceMatches(p, crit)

\* One "if crit:" block.  A truthy criterion that is no str has no .strip():
\* AttributeError.  The state block calls state.strip() inside the
\* comprehension, so it is reached only when there is a record to test.
FilterStep(r, crit, kind) ==
    IF r.exc # "none" \/ ~Truthy(crit) THEN r
    ELSE IF crit.t # "str"
         THEN IF kind = "state" /\ r.val = <<>> THEN r
              ELSE [exc |-> "AttributeError", val |-> <<>>]
    ELSE LET Keep(p) == CriterionMatches(kind, p, crit.s)
         IN  [exc |-> "none", val |-> SelectSeq(r.val, Keep)]

\* _filter_providers(state, city, specialty, insurance, limit): [exc, val]
FilterProviders(store, state, city, specialty, insurance, limit) ==
    LET r0 == [exc |-> "none", val |-> store]
        r1 == FilterStep(r0, state, "state")
        r2 == FilterStep(r1, city, "city")
        r3 == FilterStep(r2, specialty, "specialty")
        r4 == FilterStep(r3, insurance, "insurance")
        n == PyInt(limit)
    IN  IF r4.exc # "none" THEN r4
        ELSE IF n.exc # "none" THEN [exc |-> n.exc, val |-> <<>>]
        ELSE [exc |-> "none", val |-> Truncate(r4.val, n.val)]

-----------------------------------------------------------------------------
(* build_provider_table *)

TableHeaders == <<
    [key |-> "name", label |-> "Provider Name", sortable |-> TRUE, editable |-> FALSE],
    [key |-> "specialty", label |-> "Specialty", sortable |-> TRUE, editable |-> FALSE],
    [key |-> "city", label |-> "City", sortable |-> TRUE, editable |-> FALSE],
    [key |-> "state", label |-> "State", sortable |-> TRUE, editable |-> FALSE],
    [key |-> "rating", label |-> "Rating", sortable |-> TRUE, editable |-> FALSE],
    [key |-> "notes", label |-> "Notes", sortable |-> FALSE, editable |-> TRUE] >>

\* the row appended for one record p of the subset
ProjectRow(p) ==
    [id |-> p.id, name |-> p.name, specialty |-> p.specialty, city |-> p.city,
     state |-> p.state, rating |-> p.rating, notes |-> p.notes]

ClampPage(page) == Max(1, page)
\* page_size taken as given, without the clamp
ClampPageSize_None(page_size) == page_size
ClampPageSize(page_size) == Max(1, page_size)
\* the start offset of a 0-based page
PageStart_ZeroBased(page, page_size) == page * page_size
PageStart(page, page_size) == (page - 1) * page_size

\* build_provider_table(providers, page, page_size), page and page_size ints
BuildProviderTable(lst, page0, page_size0) ==
    LET page == ClampPage(page0)
        page_size == ClampPageSize(page_size0)
        start == PageStart(page, page_size)
        subset == PySlice(lst, start, start + page_size)
    IN  [type |-> "provider-table",
         page |-> page,
         page_size |-> page_size,
         total |-> Len(lst),
         headers |-> TableHeaders,
         rows |-> [i \in 1..Len(subset) |-> ProjectRow(subset[i])]]

-----------------------------------------------------------------------------
(* Inputs *)

Ints == -1..MaxInt

StateArgs == {None, Str(<<>>), Str(<<" ", "c", "a", " ">>), Str(<<"N", "Y">>),
              Str(<<" ">>), IntV(5), IntV(0)}
CityArgs == {None, Str(<<>>), Str(<<"l", "o", "s">>),
             Str(<<" ", "B", "U", "R", "B", "A", "N", "K", " ">>), Str(<<" ">>), IntV(5)}
SpecialtyArgs == {None, Str(<<>>), Str(<<"c", "a", "r", "d", "i", "o">>),
                  Str(<<" ", "S", "u", "r", "g", "e", "r", "y", " ">>),
                  Str(<<"x", "y", "z">>), IntV(5)}
InsuranceArgs == {None, Str(<<>>), Str(sCigna), Str(<<"c", "i", "g", "n", "a">>),
                  Str(<<" ", "A", "e", "t", "n", "a", " ">>), Str(<<"X">>), ListV(1)}
LimitArgs == {IntV(n) : n \in Ints} \cup {Str(<<"3">>), Str(<<"a", "b", "c">>), None}

sSecretSause == <<"s", "e", "c", "r", "e", "t", "-", "s", "a", "u", "s", "e">>
sAbout == <<"a", "b", "o", "u", "t">>
sContact == <<"c", "o", "n", "t", "a", "c", "t">>
sPrivacyPolicy == <<"p", "r", "i", "v", "a", "c", "y", "-", "p", "o", "l", "i", "c", "y">>
LinkArgs == {Absent, None, Str(sSecretSause), Str(sAbout), Str(sContact), Str(sPrivacyPolicy),
             Str(<<"b", "o", "g", "u", "s">>), Str(<<"A", "b", "o", "u", "t">>), Str(<<>>),
             IntV(1), ListV(0), ListV(1)}
MessageArgs == {Absent, None, Str(<<>>), Str(<<"h", "e", "l", "l", "o">>), IntV(5), ListV(2)}

\* record lists of at most MaxListLen Provider Store records, in any order
RecordLists(store) ==
    UNION {[1..k -> {store[i] : i \in 1..Len(store)}] : k \in 0..MaxListLen}

\* a JSON request body: every key a handler reads, Absent when not sent
EmptyPayload ==
    [state |-> Absent, city |-> Absent, specialty |-> Absent, insurance |-> Absent,
     limit |-> Absent, link |-> Absent, message |-> Absent]

-----------------------------------------------------------------------------
(* Responses *)

\* JSONResponse(content=body), and JSONResponse(status_code=400, ...)
JsonOk(body) == [status |-> 200, exc |-> "none", body |-> body]
JsonBadRequest(body) == [status |-> 400, exc |-> "none", body |-> body]
\* an exception that leaves the handler: the framework answers 500
Unhandled(exc) == [status |-> 500, exc |-> exc, body |-> [type |-> "Internal Server Error"]]

\* utc_iso(): the server's clock reading, not modelled further
UtcIso == "utc_iso()"

-----------------------------------------------------------------------------
(* Calls are served one after the other: a call is taken when none is being *)
(* served, and its result stays in resp until the caller has taken it.      *)

NoCall == [op |-> "none"]
NoResult == [exc |-> "none"]
Idle == req = NoCall

\* the caller takes the result: the call is over
ReturnToCaller ==
    /\ ~Idle
    /\ req' = NoCall
    /\ resp' = NoResult
    /\ UNCHANGED <<providers, ctorVars, mongoVars, logVars, memo>>

(* Direct calls of the two helpers *)

CallFilterProviders ==
    /\ Idle
    /\ \E state \in StateArgs, city \in CityArgs, specialty \in SpecialtyArgs,
          insurance \in InsuranceArgs, limit \in LimitArgs :
          /\ req' = [op |-> "filter", state |-> state, city |-> city, specialty |-> specialty,
                     insurance |-> insurance, limit |-> limit]
          /\ resp' = FilterProviders(providers, state, city, specialty, insurance, limit)
          /\ UNCHANGED <<providers, ctorVars, mongoVars, logVars, memo>>

CallBuildProviderTable ==
    /\ Idle
    /\ \E lst \in RecordLists(providers), page \in Ints, page_size \in Ints :
          /\ req' = [op |-> "table", lst |-> lst, page |-> page, page_size |-> page_size]
          /\ resp' = [exc |-> "none", val |-> BuildProviderTable(lst, page, page_size)]
          /\ UNCHANGED <<providers, ctorVars, mongoVars, logVars, memo>>

-----------------------------------------------------------------------------
(* FastAPI routes registered by _register_routes *)

\* the page size without the cap of 25
PromptPageSize_NoCap(limit) == Max(1, limit)

\* page_size=min(25, max(1, limit))
PromptPageSize(limit) == Min(25, Max(1, limit))

\* prompt_api(payload)
PromptResponse(store, payload) ==
    LET n == PyInt(DictGet(payload, "limit", IntV(50)))
    IN  IF n.exc # "none" THEN Unhandled(n.exc)
        ELSE LET f == FilterProviders(store,
                                      DictGet(payload, "state", None),
                                      DictGet(payload, "city", None),
                                      DictGet(payload, "specialty", None),
                                      DictGet(payload, "insurance", None),
                                      IntV(n.val))
             IN  IF f.exc # "none" THEN Unhandled(f.exc)
                 ELSE JsonOk([type |-> "prompt-result",
                              ts |-> UtcIso,
                              providers |-> BuildProviderTable(f.val, 1, PromptPageSize(n.val)),
                              notes |-> "MVP response from mock data."])

\* hash(v): a list is unhashable, and "v in {...}" hashes v first
Hashable(v) == v.t # "list"

ValidLinks == {Str(sSecretSause), Str(sAbout), Str(sContact), Str(sPrivacyPolicy)}

\* the dict of page endpoints, .get(link, "/")
NavTarget(link) ==
    CASE link = Str(sSecretSause) -> "/secret-sause"
      [] link = Str(sAbout) -> "/about"
      [] link = Str(sPrivacyPolicy) -> "/privacy"
      [] OTHER -> "/"

\* header_api(payload)
HeaderResponse(payload) ==
    LET link == DictGet(payload, "link", None)
    IN  IF ~Hashable(link) THEN Unhandled("TypeError")
        ELSE IF link \notin ValidLinks
             THEN JsonBadRequest([status |-> "error", message |-> "Invalid link"])
        ELSE IF link = Str(sContact)
             THEN JsonOk([type |-> "contact-info",
                          contactName |-> "Skip Snow",
                          email |-> "skip.snow@gmail.com",
                          message |-> "Use the mailto link in the header to contact FindCare."])
        ELSE JsonOk([type |-> "nav", href |-> NavTarget(link)])

DEFAULT_SUMMARY_INTERVAL_SEC == 60
MessageEchoLimit == 4000

\* session_summary_api(payload)
SessionSummaryResponse(payload) ==
    JsonOk([type |-> "session-summary", ts |-> UtcIso,
            summary |-> "MVP: session summary not yet implemented (wireframe placeholder).",
            interval_seconds |-> DEFAULT_SUMMARY_INTERVAL_SEC])

\* button_manager_api(payload)
ButtonManagerResponse(payload) ==
    JsonOk([type |-> "button-manager", ts |-> UtcIso, echo |-> payload, status |-> "ok"])

\* message[:4000]: a str and a list can be sliced, None and an int cannot
Sliceable(v) == v.t \in {"str", "list"}
SliceValue(v, n) ==
    IF v.t = "str" THEN Str(PySlice(v.s, 0, n)) ELSE ListV(Min(v.n, n))

\* scrollable_output_api(payload)
ScrollableOutputResponse(payload) ==
    LET message == DictGet(payload, "message", Str(<<>>))
    IN  IF ~Sliceable(message) THEN Unhandled("TypeError")
        ELSE JsonOk([type |-> "scrollable-output", ts |-> UtcIso,
                     items |-> << [role |-> "assistant",
                                   content |-> [prefix |-> "(MVP) Received: ",
                                                received |-> SliceValue(message, MessageEchoLimit)]] >>])

\* graphic_content_api(payload)
GraphicContentResponse(payload) ==
    JsonOk([type |-> "graphic-content", ts |-> UtcIso,
            content |-> [title |-> "Graphic Content (placeholder)",
                         body |-> "Wireframe slot for clickable image regions / data-driven graphics."]])

PromptPayloads ==
    {[EmptyPayload EXCEPT !.state = st, !.city = ci, !.specialty = sp,
                          !.insurance = ins, !.limit = li] :
        st \in StateArgs \cup {Absent}, ci \in CityArgs \cup {Absent},
        sp \in SpecialtyArgs \cup {Absent}, ins \in InsuranceArgs \cup {Absent},
        li \in LimitArgs \cup {Absent, IntV(30)}}
HeaderPayloads == {[EmptyPayload EXCEPT !.link = l] : l \in LinkArgs}
PlaceholderPayloads == {[EmptyPayload EXCEPT !.message = m] : m \in MessageArgs}

PromptApi ==
    /\ Idle
    /\ \E payload \in PromptPayloads :
          /\ req' = [op |-> "prompt", payload |-> payload]
          /\ resp' = PromptResponse(providers, payload)
          /\ UNCHANGED <<providers, ctorVars, mongoVars, logVars, memo>>

HeaderApi ==
    /\ Idle
    /\ \E payload \in HeaderPayloads :
          /\ req' = [op |-> "header", payload |-> payload]
          /\ resp' = HeaderResponse(payload)
          /\ UNCHANGED <<providers, ctorVars, mongoVars, logVars, memo>>

SessionSummaryApi ==
    /\ Idle
    /\ \E payload \in PlaceholderPayloads :
          /\ req' = [op |-> "session-summary", payload |-> payload]
          /\ resp' = SessionSummaryResponse(payload)
          /\ UNCHANGED <<providers, ctorVars, mongoVars, logVars, memo>>

ButtonManagerApi ==
    /\ Idle
    /\ \E payload \in PlaceholderPayloads :
          /\ req' = [op |-> "button-manager", payload |-> payload]
          /\ resp' = ButtonManagerResponse(payload)
          /\ UNCHANGED <<providers, ctorVars, mongoVars, logVars, memo>>

ScrollableOutputApi ==
    /\ Idle
    /\ \E payload \in PlaceholderPayloads :
          /\ req' = [op |-> "scrollable-output", payload |-> payload]
          /\ resp' = ScrollableOutputResponse(payload)
          /\ UNCHANGED <<providers, ctorVars, mongoVars, logVars, memo>>

GraphicContentApi ==
    /\ Idle
    /\ \E payload \in PlaceholderPayloads :
          /\ req' = [op |-> "graphic-content", payload |-> payload]
          /\ resp' = GraphicContentResponse(payload)
          /\ UNCHANGED <<providers, ctorVars, mongoVars, logVars, memo>>

-----------------------------------------------------------------------------
(* Initial state and the specification of the request side.  The helpers   *)
(* and routes (Spec), the constructor with its listener thread (SpecCtor)   *)
(* and the database helper (SpecMongo) share no state, so each has its own  *)
(* next-state relation over the same variables.                             *)

NewCtor == [pc |-> "new", argIP |-> None, argPort |-> None, host |-> <<>>, port |-> 0,
            raised |-> "none", threads |-> 0, recalls |-> 0, again |-> "none"]
NewHelper == [phase |-> "new", cs |-> None, client |-> FALSE, obj |-> "none", raised |-> "none"]
\* a thread outside configure_logging
IdleProc == [pc |-> "idle", name |-> "none", path |-> <<>>, file |-> 0, seen |-> <<>>,
             ranBody |-> FALSE, ret |-> "none", exc |-> "none"]
\* the module as loaded: flag False, root logger without handlers, the
\* interpreter's own stdout and stderr, no file opened
NewLogState == [configured |-> FALSE, root |-> <<>>, installs |-> 0, files |-> 0,
                stdout |-> <<>>, stderr |-> <<>>, teesOut |-> 0, teesErr |-> 0,
                setups |-> 0]
LogThreads == {"main", "worker"}
NoMemo == [call |-> NoCall]
NoMongoCall == [h |-> 0, op |-> "none", exc |-> "none", ret |-> "none", ping |-> "none"]

Init ==
    /\ providers = MOCK_PROVIDERS
    /\ req = NoCall
    /\ resp = NoResult
    /\ ctor = NewCtor
    /\ serverThread = "none"
    /\ browserOpened = 0
    /\ mongo = [h \in 1..MaxHelpers |-> NewHelper]
    /\ mongoRet = NoMongoCall
    /\ logState = NewLogState
    /\ logProcs = [imported |-> FALSE, t |-> [t \in LogThreads |-> IdleProc]]
    /\ memo = NoMemo

Next ==
    \/ CallFilterProviders
    \/ CallBuildProviderTable
    \/ PromptApi
    \/ HeaderApi
    \/ SessionSummaryApi
    \/ ButtonManagerApi
    \/ ScrollableOutputApi
    \/ GraphicContentApi
    \/ ReturnToCaller

Spec == Init /\ [][Next]_vars

-----------------------------------------------------------------------------
(* FindCareGradioFigmaUX.__init__ and the listener thread *)

HostArgs == {None, IntV(5), Str(<<>>), Str(<<" ", "\t">>),
             Str(<<"1", "2", "7", ".", "0", ".", "0", ".", "1">>),
             Str(<<" ", "l", "o", "c", "a", "l", "h", "o", "s", "t", " ">>)}
PortArgs == {None, IntV(7860), Str(<<>>), Str(<<" ", " ">>),
             Str(<<"7", "8", "6", "0">>), Str(<<" ", "8", "0", " ">>), Str(<<"+", "8", "0">>),
             Str(<<"8", "_", "0">>), Str(<<"8", "0", "a">>), Str(<<"a", "b", "c">>),
             Str(<<"8", "_">>), Str(<<"8", " ", "0">>)}

\* not isinstance(arg, str) or not arg.strip()
NotNonEmptyStr(arg) == arg.t # "str" \/ StrStrip(arg.s) = <<>>

\* the port accepted whatever its characters
ParsePort_Lenient(port_str) == [exc |-> "none", val |-> 0]

\* int(self.port_str)
ParsePort(port_str) == StrToInt(port_str)

\* __init__ up to the call of _start_server_and_open_browser; gradio is the
\* outcome of the optional import of gradio at module load
CtorValidate(argIP, argPort, gradio) ==
    LET fail(e) == [NewCtor EXCEPT !.pc = "raised", !.argIP = argIP, !.argPort = argPort,
                                   !.raised = e]
    IN  IF NotNonEmptyStr(argIP) THEN fail("ValueError")
        ELSE IF NotNonEmptyStr(argPort) THEN fail("ValueError")
        ELSE LET n == ParsePort(StrStrip(argPort.s))
             IN  IF n.exc # "none" THEN fail("ValueError")
                 ELSE IF ~gradio THEN fail("RuntimeError")
                 ELSE [NewCtor EXCEPT !.pc = "built", !.argIP = argIP, !.argPort = argPort,
                                      !.host = StrStrip(argIP.s), !.port = n.val]

\* FindCareGradioFigmaUX(argIP, argPort): validation, routes, UI
Construct ==
    /\ ctor.pc = "new"
    /\ \E argIP \in HostArgs, argPort \in PortArgs, gradio \in BOOLEAN :
          ctor' = CtorValidate(argIP, argPort, gradio)
    /\ UNCHANGED <<serverThread, browserOpened, httpVars, mongoVars, logVars, memo>>

\* self._server_thread and self._server_thread.is_alive()
ThreadAlive(thread) == thread \in {"starting", "listening"}

\* the browser step waiting for the listener to have bound its socket
BrowserMayOpen_WhenBound(thread) == thread = "listening"

\* time.sleep(1.0): once the delay has passed the browser step runs, whatever
\* the listener thread has done in the meantime
BrowserMayOpen(thread) == TRUE

\* _start_server_and_open_browser called by __init__ (self._server_thread is
\* None): threading.Thread(...).start(), then sleep
StartServerThread ==
    /\ ctor.pc = "built"
    /\ ~ThreadAlive(serverThread)
    /\ serverThread' = "starting"
    /\ ctor' = [ctor EXCEPT !.pc = "sleeping", !.threads = @ + 1]
    /\ UNCHANGED <<browserOpened, httpVars, mongoVars, logVars, memo>>

\* _start_server_and_open_browser called again on the constructed object:
\* "Server already running" and return while the thread is alive, a new
\* thread and the sleep otherwise
StartAgain ==
    /\ ctor.pc = "done"
    /\ ctor.recalls < MaxRecalls
    /\ IF ThreadAlive(serverThread)
       THEN /\ ctor' = [ctor EXCEPT !.recalls = @ + 1, !.again = "already_running"]
            /\ UNCHANGED serverThread
       ELSE /\ ctor' = [ctor EXCEPT !.recalls = @ + 1, !.again = "started",
                                    !.pc = "sleeping", !.threads = @ + 1]
            /\ serverThread' = "starting"
    /\ UNCHANGED <<browserOpened, httpVars, mongoVars, logVars, memo>>

\* _run_server on the listener thread: uvicorn.run binds the socket
ListenerBind ==
    /\ serverThread = "starting"
    /\ serverThread' = "listening"
    /\ UNCHANGED <<ctor, browserOpened, httpVars, mongoVars, logVars, memo>>

\* _run_server: uvicorn.run could not bind and the thread ends
ListenerExit ==
    /\ serverThread = "starting"
    /\ serverThread' = "dead"
    /\ UNCHANGED <<ctor, browserOpened, httpVars, mongoVars, logVars, memo>>

\* _start_server_and_open_browser after the sleep: webbrowser.open(url)
OpenBrowser ==
    /\ ctor.pc = "sleeping"
    /\ BrowserMayOpen(serverThread)
    /\ browserOpened' = browserOpened + 1
    /\ ctor' = [ctor EXCEPT !.pc = "done"]
    /\ UNCHANGED <<serverThread, httpVars, mongoVars, logVars, memo>>

NextCtor ==
    \/ Construct
    \/ StartServerThread
    \/ StartAgain
    \/ ListenerBind
    \/ ListenerExit
    \/ OpenBrowser

SpecCtor == Init /\ [][NextCtor]_vars

-----------------------------------------------------------------------------
(* ChatHealthyMongoUtilities *)

ConnectionStrings == {None, Str(<<>>), IntV(5),
                      Str(<<"m", "o", "n", "g", "o", "d", "b", ":", "/", "/", "a">>),
                      Str(<<"m", "o", "n", "g", "o", "d", "b", ":", "/", "/", "b">>)}

\* what the driver does with a connection string: MongoClient(...) raises a
\* PyMongoError, or the client is created and its ping raises one, or both succeed
DriverOutcomes == {"create_fails", "ping_fails", "ok"}

\* __init__(connection_string), with _create_and_validate_client
HelperInit(cs, outcome) ==
    IF ~Truthy(cs) \/ cs.t # "str"
    THEN [NewHelper EXCEPT !.phase = "failed", !.cs = cs, !.raised = "ValueError"]
    ELSE CASE outcome = "create_fails" ->
                [NewHelper EXCEPT !.phase = "failed", !.cs = cs, !.raised = "ConnectionError"]
           [] outcome = "ping_fails" ->
                [NewHelper EXCEPT !.phase = "failed", !.cs = cs, !.obj = "open",
                                  !.raised = "ConnectionError"]
           [] OTHER ->
                [NewHelper EXCEPT !.phase = "ready", !.cs = cs, !.obj = "open",
                                  !.client = TRUE]

MongoConstruct ==
    \E h \in 1..MaxHelpers :
        /\ mongo[h].phase = "new"
        /\ \E cs \in ConnectionStrings, outcome \in DriverOutcomes :
              /\ mongo' = [mongo EXCEPT ![h] = HelperInit(cs, outcome)]
              /\ mongoRet' = [h |-> h, op |-> "__init__", exc |-> mongo'[h].raised,
                               ret |-> "none", ping |-> "none"]
        /\ UNCHANGED <<httpVars, ctorVars, logVars, memo>>

\* the handle handed out whatever its state, with no ping
GetConnectionResult_Unchecked(helper, pingOk) ==
    [exc |-> "none", ret |-> helper.obj, ping |-> "none"]

\* getConnection(), with _validate_existing_client: [exc, ret, ping], ping
\* being the outcome of the ping the call made ("none": no ping was made)
GetConnectionResult(helper, pingOk) ==
    IF ~helper.client THEN [exc |-> "ConnectionError", ret |-> "none", ping |-> "none"]
    ELSE IF ~pingOk THEN [exc |-> "ConnectionError", ret |-> "none", ping |-> "fails"]
    ELSE [exc |-> "none", ret |-> helper.obj, ping |-> "ok"]

MongoGetConnection ==
    \E h \in 1..MaxHelpers :
        /\ mongo[h].phase = "ready"
        /\ \E pingOk \in BOOLEAN :
              LET r == GetConnectionResult(mongo[h], pingOk)
              IN  mongoRet' = [h |-> h, op |-> "getConnection", exc |-> r.exc,
                               ret |-> r.ret, ping |-> r.ping]
        /\ UNCHANGED <<mongo, httpVars, ctorVars, logVars, memo>>

\* close()
HelperClose(helper) ==
    IF helper.client THEN [helper EXCEPT !.obj = "closed", !.client = FALSE] ELSE helper

MongoClose ==
    \E h \in 1..MaxHelpers :
        /\ mongo[h].phase = "ready"
        /\ mongo' = [mongo EXCEPT ![h] = HelperClose(mongo[h])]
        /\ mongoRet' = [h |-> h, op |-> "close", exc |-> "none", ret |-> "none",
                         ping |-> "none"]
        /\ UNCHANGED <<httpVars, ctorVars, logVars, memo>>

\* the methods the class defines
HelperAttributes == {"__init__", "_create_and_validate_client", "_validate_existing_client",
                     "getConnection", "close", "__enter__", "__exit__"}

\* __enter__: return self.get_connection()
EnterResult(helper, pingOk) ==
    IF "get_connection" \notin HelperAttributes
    THEN [exc |-> "AttributeError", ret |-> "none", ping |-> "none"]
    ELSE GetConnectionResult(helper, pingOk)

\* __exit__: self.close()
ExitResult(helper) == HelperClose(helper)

\* with helper as client: <block>.  The interpreter calls __exit__ only when
\* __enter__ returned; blockRaises says whether the block raised.
WithStatement(helper, pingOk, blockRaises) ==
    LET e == EnterResult(helper, pingOk)
    IN  IF e.exc # "none"
        THEN [helper |-> helper, exc |-> e.exc, ret |-> "none", ping |-> e.ping]
        ELSE [helper |-> ExitResult(helper),
              exc |-> IF blockRaises THEN "BlockError" ELSE "none",
              ret |-> e.ret, ping |-> e.ping]

MongoWith ==
    \E h \in 1..MaxHelpers :
        /\ mongo[h].phase = "ready"
        /\ \E pingOk \in BOOLEAN, blockRaises \in BOOLEAN :
              LET w == WithStatement(mongo[h], pingOk, blockRaises)
              IN  /\ mongo' = [mongo EXCEPT ![h] = w.helper]
                  /\ mongoRet' = [h |-> h, op |-> "with", exc |-> w.exc, ret |-> w.ret,
                                   ping |-> w.ping]
        /\ UNCHANGED <<httpVars, ctorVars, logVars, memo>>

NextMongo ==
    \/ MongoConstruct
    \/ MongoGetConnection
    \/ MongoClose
    \/ MongoWith

SpecMongo == Init /\ [][NextMongo]_vars

-----------------------------------------------------------------------------
(* Requests in sequence: the handlers, the Gradio callbacks, and the store *)

\* the filter narrowing the class list itself
StoreAfterFilter_InPlace(store, results) == results

\* results = list(cls.MOCK_PROVIDERS), then list comprehensions and a slice:
\* the filter works on copies and the class list is left as it was
StoreAfterFilter(store, results) == store

\* the store after a call of _filter_providers that returned r
FilterEffect(store, r) == IF r.exc = "none" THEN StoreAfterFilter(store, r.val) ELSE store

SeqStateArgs == {None, Str(<<" ", "c", "a", " ">>), Str(<<"N", "Y">>)}
SeqCityArgs == {None, Str(<<"l", "o", "s">>)}
SeqSpecialtyArgs == {None, Str(<<"c", "a", "r", "d", "i", "o">>)}
SeqInsuranceArgs == {None, Str(sCigna)}
SeqLimitArgs == {IntV(1), IntV(MaxInt), Str(<<"a", "b", "c">>)}
SeqPromptPayloads ==
    {[EmptyPayload EXCEPT !.state = st, !.insurance = ins, !.limit = li] :
        st \in {Absent, Str(<<" ", "c", "a", " ">>)}, ins \in {Absent, Str(sCigna)},
        li \in {Absent, IntV(1), Str(<<"a", "b", "c">>)}}
\* the prompt box and the chat history handed to ui_send_message
UiPrompts == {None, Str(<<>>), Str(<<" ">>), Str(<<" ", "h", "i">>)}
UiHistories == {None, <<>>, <<<<"h", "i">>>>}

SeqFilter ==
    /\ Idle
    /\ \E state \in SeqStateArgs, city \in SeqCityArgs, specialty \in SeqSpecialtyArgs,
          insurance \in SeqInsuranceArgs, limit \in SeqLimitArgs :
          /\ req' = [op |-> "filter", state |-> state, city |-> city, specialty |-> specialty,
                     insurance |-> insurance, limit |-> limit]
          /\ resp' = FilterProviders(providers, state, city, specialty, insurance, limit)
          /\ providers' = FilterEffect(providers, resp')
    /\ UNCHANGED <<ctorVars, mongoVars, logVars, memo>>

SeqPrompt ==
    /\ Idle
    /\ \E payload \in SeqPromptPayloads :
          /\ req' = [op |-> "prompt", payload |-> payload]
          /\ resp' = PromptResponse(providers, payload)
          /\ LET n == PyInt(DictGet(payload, "limit", IntV(50)))
             IN  providers' =
                    IF n.exc # "none" THEN providers
                    ELSE FilterEffect(providers,
                            FilterProviders(providers, DictGet(payload, "state", None),
                                            DictGet(payload, "city", None),
                                            DictGet(payload, "specialty", None),
                                            DictGet(payload, "insurance", None),
                                            IntV(n.val)))
    /\ UNCHANGED <<ctorVars, mongoVars, logVars, memo>>

SeqTable ==
    /\ Idle
    /\ \E lst \in {<<>>, providers}, page \in {1, 2}, page_size \in {1, MaxInt} :
          /\ req' = [op |-> "table", lst |-> lst, page |-> page, page_size |-> page_size]
          /\ resp' = [exc |-> "none", val |-> BuildProviderTable(lst, page, page_size)]
    /\ UNCHANGED <<providers, ctorVars, mongoVars, logVars, memo>>

\* ui_clear
UiClear ==
    /\ Idle
    /\ req' = [op |-> "ui_clear"]
    /\ resp' = [exc |-> "none", val |-> BuildProviderTable(providers, 1, 25),
                history |-> <<>>, status |-> "(cleared)"]
    /\ UNCHANGED <<providers, ctorVars, mongoVars, logVars, memo>>

\* ui_search
UiSearch ==
    /\ Idle
    /\ LET r == FilterProviders(providers, Str(sCA), None, None, None, IntV(50))
       IN  /\ req' = [op |-> "ui_search"]
           /\ resp' = [exc |-> "none", val |-> BuildProviderTable(r.val, 1, 25),
                       status |-> "(mock search ran)"]
           /\ providers' = FilterEffect(providers, r)
    /\ UNCHANGED <<ctorVars, mongoVars, logVars, memo>>

\* ui_send_message(p, history): [history, status]
SendMessageResult(p, history) ==
    LET text == StrStrip(IF Truthy(p) THEN p.s ELSE <<>>)
        old == IF history = None THEN <<>> ELSE history
    IN  IF text = <<>> THEN [exc |-> "none", history |-> history,
                             status |-> "Please enter a prompt."]
        ELSE [exc |-> "none", history |-> Append(old, text), status |-> ""]

UiSendMessage ==
    /\ Idle
    /\ \E p \in UiPrompts, history \in UiHistories :
          /\ req' = [op |-> "ui_send_message", p |-> p, history |-> history]
          /\ resp' = SendMessageResult(p, history)
    /\ UNCHANGED <<providers, ctorVars, mongoVars, logVars, memo>>

\* the caller takes the result.  A result of _filter_providers may be kept
\* for comparison with a later call; other says whether a request of
\* another kind has been served since it was kept.
SeqReturn ==
    /\ ~Idle
    /\ req' = NoCall
    /\ resp' = NoResult
    /\ IF req.op = "filter"
       THEN memo' \in {memo, [call |-> req, result |-> resp, other |-> FALSE]}
       ELSE memo' = IF memo = NoMemo THEN memo ELSE [memo EXCEPT !.other = TRUE]
    /\ UNCHANGED <<providers, ctorVars, mongoVars, logVars>>

NextSeq ==
    \/ SeqFilter
    \/ SeqPrompt
    \/ SeqTable
    \/ HeaderApi
    \/ SessionSummaryApi
    \/ ButtonManagerApi
    \/ ScrollableOutputApi
    \/ GraphicContentApi
    \/ UiClear
    \/ UiSearch
    \/ UiSendMessage
    \/ SeqReturn

SpecSeq == Init /\ [][NextSeq]_vars

-----------------------------------------------------------------------------
(* logging_config.configure_logging *)

LoggerNames == {"findcare", "other"}
LogPathArgs == {None, Str(<<>>), Str(<<"l", "/", "a">>), Str(<<"a">>)}
\* os.getenv("FINDCARE_LOG_PATH"): unset, or a path
EnvLogPaths == {Absent, Str(<<"e", "/", "b">>)}
\* _DEFAULT_LOG_PATH, <package>/logs/findcare.log, its directories shortened
DEFAULT_LOG_PATH == <<"l", "o", "g", "s", "/", "f", ".", "l", "o", "g">>

\* the statements of the setup body in program order: makedirs and the two
\* handler constructors, basicConfig, the read and the assignment of
\* sys.stdout, those of sys.stderr, _CONFIGURED = True
BodyOrder_FlagFirst ==
    <<"flag", "open", "basicConfig", "read_out", "wrap_out", "read_err", "wrap_err">>
BodyOrder ==
    <<"open", "basicConfig", "read_out", "wrap_out", "read_err", "wrap_err", "flag">>

\* the statement after pc; after the last one the function returns
StepAfter(pc) ==
    LET i == CHOOSE k \in 1..Len(BodyOrder) : BodyOrder[k] = pc
    IN  IF i = Len(BodyOrder) THEN "returned" ELSE BodyOrder[i + 1]

\* a thread that has executed the statement at p.pc; the statement after
\* the last one is return logging.getLogger(name)
Advance(p) ==
    IF StepAfter(p.pc) = "returned"
    THEN [p EXCEPT !.pc = "returned", !.ret = p.name, !.ranBody = TRUE]
    ELSE [p EXCEPT !.pc = StepAfter(p.pc)]

\* the module state once the statement at pc has been executed: setups
\* counts the bodies run to their end
Completed(ls, pc) ==
    IF StepAfter(pc) = "returned" THEN [ls EXCEPT !.setups = @ + 1] ELSE ls

\* the latch never read as set
AlreadyConfigured_Never(flag) == FALSE

\* if _CONFIGURED:
AlreadyConfigured(flag) == flag

\* log_path or os.getenv("FINDCARE_LOG_PATH", _DEFAULT_LOG_PATH)
EffectivePath(log_path, env) ==
    IF Truthy(log_path) THEN log_path.s
    ELSE IF env = Absent THEN DEFAULT_LOG_PATH ELSE env.s

\* os.path.dirname(path): the part before the last "/", without its trailing
\* slashes unless it is made of slashes only
Dirname(path) ==
    LET slashes == {i \in 1..Len(path) : path[i] = "/"}
        last == IF slashes = {} THEN 0
                ELSE CHOOSE i \in slashes : \A j \in slashes : j <= i
        head == SubSeq(path, 1, last)
        keep == {i \in 1..Len(head) : head[i] # "/"}
    IN  IF keep = {} THEN head
        ELSE SubSeq(head, 1, CHOOSE i \in keep : \A j \in keep : j <= i)

\* configure_logging(name, log_path) up to the test of the latch: the logger
\* is returned at once, or the thread enters the body
CallStart(flag, name, log_path, env) ==
    IF AlreadyConfigured(flag)
    THEN [IdleProc EXCEPT !.pc = "returned", !.name = name, !.ret = name]
    ELSE [IdleProc EXCEPT !.pc = BodyOrder[1], !.name = name,
                          !.path = EffectivePath(log_path, env)]

\* logging.basicConfig(handlers=...): does nothing when the root logger has
\* handlers already
BasicConfig(root, handlers) == IF root = <<>> THEN handlers ELSE root

\* _TeeStream(stream, file_handler.stream): a stream is the sequence of the
\* files it has been teed to, innermost first
TeeStream(stream, file) == Append(stream, file)

LogCall ==
    \E t \in LogThreads :
        /\ logProcs.t[t].pc = "idle"
        /\ \E name \in LoggerNames, log_path \in LogPathArgs, env \in EnvLogPaths :
              logProcs' = [logProcs EXCEPT
                              !.t[t] = CallStart(logState.configured, name, log_path, env)]
        /\ UNCHANGED <<logState, httpVars, ctorVars, mongoVars, memo>>

\* configure_logging called while no other call is in progress
LogCallSeq ==
    /\ \A u \in LogThreads : logProcs.t[u].pc = "idle"
    /\ LogCall

\* os.makedirs(os.path.dirname(effective_path), exist_ok=True), FileHandler,
\* StreamHandler: makedirs("") raises FileNotFoundError; the file system may
\* refuse the directory or the file (OSError)
LogOpenFile ==
    \E t \in LogThreads :
        LET p == logProcs.t[t]
        IN  /\ p.pc = "open"
            /\ IF Dirname(p.path) = <<>>
               THEN /\ logProcs' = [logProcs EXCEPT !.t[t] =
                                       [p EXCEPT !.pc = "raised", !.exc = "FileNotFoundError"]]
                    /\ UNCHANGED logState
               ELSE \E ok \in BOOLEAN :
                      IF ok
                      THEN /\ logState' = Completed([logState EXCEPT !.files = @ + 1], p.pc)
                           /\ logProcs' = [logProcs EXCEPT !.t[t] =
                                              Advance([p EXCEPT !.file = logState.files + 1])]
                      ELSE /\ logProcs' = [logProcs EXCEPT !.t[t] =
                                              [p EXCEPT !.pc = "raised", !.exc = "OSError"]]
                           /\ UNCHANGED logState
            /\ UNCHANGED <<httpVars, ctorVars, mongoVars, memo>>

\* logging.basicConfig(level, format, handlers=[file_handler, stream_handler])
LogBasicConfig ==
    \E t \in LogThreads :
        LET p == logProcs.t[t]
            root == BasicConfig(logState.root, <<"file", "stream">>)
        IN  /\ p.pc = "basicConfig"
            /\ logState' = Completed([logState EXCEPT
                                 !.root = root,
                                 !.installs = IF root # logState.root THEN @ + 1 ELSE @], p.pc)
            /\ logProcs' = [logProcs EXCEPT !.t[t] = Advance(p)]
            /\ UNCHANGED <<httpVars, ctorVars, mongoVars, memo>>

\* the right-hand side of sys.stdout = _TeeStream(sys.stdout, ...) (and of
\* the sys.stderr line) reads the current stream
LogReadStream ==
    \E t \in LogThreads :
        LET p == logProcs.t[t]
        IN  /\ p.pc \in {"read_out", "read_err"}
            /\ logProcs' = [logProcs EXCEPT !.t[t] =
                               Advance([p EXCEPT !.seen = IF p.pc = "read_out"
                                                          THEN logState.stdout
                                                          ELSE logState.stderr])]
            /\ logState' = Completed(logState, p.pc)
            /\ UNCHANGED <<httpVars, ctorVars, mongoVars, memo>>

\* sys.stdout = _TeeStream(...) / sys.stderr = _TeeStream(...): the tee made
\* of the stream read is assigned
LogWrapStream ==
    \E t \in LogThreads :
        LET p == logProcs.t[t]
        IN  /\ p.pc \in {"wrap_out", "wrap_err"}
            /\ logState' = Completed(
                   IF p.pc = "wrap_out"
                   THEN [logState EXCEPT !.stdout = TeeStream(p.seen, p.file),
                                         !.teesOut = @ + 1]
                   ELSE [logState EXCEPT !.stderr = TeeStream(p.seen, p.file),
                                         !.teesErr = @ + 1], p.pc)
            /\ logProcs' = [logProcs EXCEPT !.t[t] = Advance(p)]
            /\ UNCHANGED <<httpVars, ctorVars, mongoVars, memo>>

\* _CONFIGURED = True
LogSetFlag ==
    \E t \in LogThreads :
        LET p == logProcs.t[t]
        IN  /\ p.pc = "flag"
            /\ logState' = Completed([logState EXCEPT !.configured = TRUE], p.pc)
            /\ logProcs' = [logProcs EXCEPT !.t[t] = Advance(p)]
            /\ UNCHANGED <<httpVars, ctorVars, mongoVars, memo>>

\* the caller has its logger, or the exception, and may call again
LogReturn ==
    \E t \in LogThreads :
        /\ logProcs.t[t].pc \in {"returned", "raised"}
        /\ logProcs' = [logProcs EXCEPT !.t[t] = IdleProc]
        /\ UNCHANGED <<logState, httpVars, ctorVars, mongoVars, memo>>

\* import of FindCareGradioFigmaUX: the "findcare" logger has no handler of
\* its own, so logging.basicConfig(level, format) runs and gives the root
\* logger a default stream handler unless it has handlers
ImportFindCare ==
    /\ ~logProcs.imported
    /\ logProcs' = [logProcs EXCEPT !.imported = TRUE]
    /\ logState' = [logState EXCEPT !.root = BasicConfig(@, <<"default">>)]
    /\ UNCHANGED <<httpVars, ctorVars, mongoVars, memo>>

\* calls made one after the other
NextLogSeq ==
    \/ LogCallSeq
    \/ LogOpenFile
    \/ LogBasicConfig
    \/ LogReadStream
    \/ LogWrapStream
    \/ LogSetFlag
    \/ LogReturn
    \/ ImportFindCare

SpecLogSeq == Init /\ [][NextLogSeq]_vars

\* calls made by the threads with no coordination: a thread switch may come
\* between any two statements
NextLogging ==
    \/ LogCall
    \/ LogOpenFile
    \/ LogBasicConfig
    \/ LogReadStream
    \/ LogWrapStream
    \/ LogSetFlag
    \/ LogReturn
    \/ ImportFindCare

SpecLogging == Init /\ [][NextLogging]_vars

-----------------------------------------------------------------------------
(* What the claims say, stated without the operators of the model *)

\* s without its leading and trailing whitespace
Trimmed(s) ==
    LET keep == {i \in 1..Len(s) : ~IsSpace(s[i])}
    IN  IF keep = {} THEN <<>>
        ELSE SubSeq(s, CHOOSE i \in keep : \A j \in keep : i <= j,
                       CHOOSE i \in keep : \A j \in keep : i >= j)
Verbatim(s) == s

SameLetter(a, b) == a = b \/ LowerChar(a) = b \/ a = LowerChar(b)
EqIgnoreCase(a, b) == Len(a) = Len(b) /\ \A i \in 1..Len(a) : SameLetter(a[i], b[i])
ContainsIgnoreCase(sub, s) ==
    \E off \in 0..Len(s) :
        off + Len(sub) <= Len(s) /\ \A i \in 1..Len(sub) : SameLetter(sub[i], s[off + i])

\* a criterion that is supplied: a non-empty string
Supplied(c) == c.t = "str" /\ Len(c.s) > 0

\* record p satisfies every supplied criterion of call c, each read through Norm
Satisfies(p, c, Norm(_)) ==
    /\ Supplied(c.state) => EqIgnoreCase(p.state, Norm(c.state.s))
    /\ Supplied(c.city) => ContainsIgnoreCase(Norm(c.city.s), p.city)
    /\ Supplied(c.specialty) => ContainsIgnoreCase(Norm(c.specialty.s), p.specialty)
    /\ Supplied(c.insurance) =>
           \E k \in DOMAIN p.accepts_insurance : p.accepts_insurance[k] = Norm(c.insurance.s)

\* the records of store that satisfy c, in store order, cut to the first n
FirstSatisfying(store, c, n, Norm(_)) ==
    LET M == {i \in 1..Len(store) : Satisfies(store[i], c, Norm)}
        Kth(k) == CHOOSE i \in M : Cardinality({j \in M : j <= i}) = k
    IN  [k \in 1..Min(Cardinality(M), n) |-> store[Kth(k)]]

AbsentOrStr(c) == c.t \in {"none", "str"}
WellTypedFilterCall ==
    /\ req.op = "filter"
    /\ AbsentOrStr(req.state) /\ AbsentOrStr(req.city)
    /\ AbsentOrStr(req.specialty) /\ AbsentOrStr(req.insurance)
    /\ req.limit.t = "int"

\* C1, as claimed: for criteria each absent, empty or a string and an integer
\* limit, _filter_providers returns exactly the store records, in store order,
\* that satisfy all supplied criteria compared with the criterion as given
\* (state: case-insensitive equality; city, specialty: case-insensitive
\* containment; insurance: exact membership), cut to the first max(1, limit).
C1_FilterContractVerbatim ==
    WellTypedFilterCall =>
        /\ resp.exc = "none"
        /\ resp.val = FirstSatisfying(providers, req, Max(1, req.limit.n), Verbatim)

\* C1, amended: the same, with every supplied criterion compared after its
\* leading and trailing whitespace is stripped.
C1_FilterContractStripped ==
    WellTypedFilterCall =>
        /\ resp.exc = "none"
        /\ resp.val = FirstSatisfying(providers, req, Max(1, req.limit.n), Trimmed)

\* a padded lower-case state and a padded insurance match, cut by the limit
C1_Witness ==
    /\ WellTypedFilterCall
    /\ req.state = Str(<<" ", "c", "a", " ">>)
    /\ req.insurance = Str(<<" ", "A", "e", "t", "n", "a", " ">>)
    /\ req.city = None /\ req.specialty = None
    /\ req.limit = IntV(1)
    /\ Len(resp.val) = 1 /\ resp.val[1].id = "prov-0001"

RowKeys == {"id", "name", "specialty", "city", "state", "rating", "notes"}
IsProjectionOf(row, p) ==
    /\ DOMAIN row = RowKeys
    /\ \A k \in RowKeys : row[k] = p[k]

\* C2: build_provider_table(L, p, s), p and s clamped to at least 1, returns
\* total = len(L) and rows that are the projections of L[(p-1)*s : (p-1)*s+s]
\* in order; the rows are empty when (p-1)*s is at or beyond len(L).
C2_PaginationLaw ==
    req.op = "table" =>
        LET L == req.lst
            p == IF req.page < 1 THEN 1 ELSE req.page
            s == IF req.page_size < 1 THEN 1 ELSE req.page_size
            off == (p - 1) * s
            T == resp.val
        IN  /\ resp.exc = "none"
            /\ T.total = Len(L)
            /\ Len(T.rows) = (IF off >= Len(L) THEN 0 ELSE Min(s, Len(L) - off))
            /\ \A i \in 1..Len(T.rows) : IsProjectionOf(T.rows[i], L[off + i])

\* the last, partial page of a list of three
C2_Witness ==
    /\ req.op = "table"
    /\ Len(req.lst) = 3 /\ req.page = 2 /\ req.page_size = 2
    /\ Len(resp.val.rows) = 1
    /\ resp.val.rows[1].id = req.lst[3].id

\* C3: every TableView of build_provider_table has page >= 1, page_size >= 1
\* and at most page_size rows; a page or page_size <= 0 becomes 1, no error.
C3_TableViewBounds ==
    req.op = "table" =>
        /\ resp.exc = "none"
        /\ resp.val.page >= 1 /\ resp.val.page_size >= 1
        /\ Len(resp.val.rows) <= resp.val.page_size
        /\ req.page <= 0 => resp.val.page = 1
        /\ req.page_size <= 0 => resp.val.page_size = 1

\* page 0 and page size -1 are served as page 1 of size 1
C3_Witness ==
    /\ req.op = "table"
    /\ req.page = 0 /\ req.page_size = -1 /\ Len(req.lst) = 2
    /\ resp.val.page = 1 /\ resp.val.page_size = 1 /\ Len(resp.val.rows) = 1

-----------------------------------------------------------------------------
(* /api/prompt *)

\* the criteria prompt_api reads from the body, an absent key read as None
PromptCriteria ==
    [state |-> IF req.payload.state = Absent THEN None ELSE req.payload.state,
     city |-> IF req.payload.city = Absent THEN None ELSE req.payload.city,
     specialty |-> IF req.payload.specialty = Absent THEN None ELSE req.payload.specialty,
     insurance |-> IF req.payload.insurance = Absent THEN None ELSE req.payload.insurance]

\* a prompt request answered with a TableView
PromptServed == req.op = "prompt" /\ resp.status = 200

\* the request's limit as prompt_api's int() reads it, 50 when absent
EffectiveLimit ==
    IF req.payload.limit = Absent THEN 50 ELSE PyInt(req.payload.limit).val

\* the store records that satisfy the supplied criteria: the full filtered set
MatchingRecords == {i \in 1..Len(providers) : Satisfies(providers[i], PromptCriteria, Trimmed)}

\* C4, as claimed: in every /api/prompt response providers.total is at least
\* the number of store records that satisfy the supplied criteria.
C4_TotalCoversFilteredSet ==
    PromptServed => resp.body.providers.total >= Cardinality(MatchingRecords)

\* C4, amended: providers.total is the size of the limit-truncated filter
\* result, min(number of matching records, max(1, limit)).
C4_TotalIsTruncatedCount ==
    PromptServed =>
        resp.body.providers.total = Min(Cardinality(MatchingRecords), Max(1, EffectiveLimit))

\* four records match state " ca " and limit 1 leaves a total of 1
C4_Witness ==
    /\ PromptServed
    /\ req.payload.state = Str(<<" ", "c", "a", " ">>)
    /\ req.payload.limit = IntV(1)
    /\ Cardinality(MatchingRecords) = 4
    /\ resp.body.providers.total = 1

IntegerLimitPrompt ==
    /\ req.op = "prompt"
    /\ req.payload.limit = Absent \/ req.payload.limit.t = "int"
    /\ AbsentOrStr(PromptCriteria.state) /\ AbsentOrStr(PromptCriteria.city)
    /\ AbsentOrStr(PromptCriteria.specialty) /\ AbsentOrStr(PromptCriteria.insurance)

\* C5: a prompt request with an integer limit (50 when absent) returns a
\* TableView with page 1, page_size min(25, max(1, limit)) and, as rows, the
\* projections of the first page_size records of the filter result for the
\* same criteria and limit, in order.
C5_PromptTableView ==
    IntegerLimitPrompt =>
        LET lim == IF req.payload.limit = Absent THEN 50 ELSE req.payload.limit.n
            size == IF lim < 1 THEN 1 ELSE IF lim > 25 THEN 25 ELSE lim
            F == FirstSatisfying(providers, PromptCriteria, Max(1, lim), Trimmed)
            T == resp.body.providers
        IN  /\ resp.status = 200
            /\ T.page = 1
            /\ T.page_size = size
            /\ Len(T.rows) = Min(size, Len(F))
            /\ \A i \in 1..Len(T.rows) : IsProjectionOf(T.rows[i], F[i])

\* no limit sent: page size 25, and "cardio" selects the one Cardiology record
C5_Witness ==
    /\ IntegerLimitPrompt
    /\ req.payload.limit = Absent
    /\ req.payload.specialty = Str(<<"c", "a", "r", "d", "i", "o">>)
    /\ req.payload.state = Absent /\ req.payload.city = Absent /\ req.payload.insurance = Absent
    /\ resp.body.providers.page_size = 25
    /\ Len(resp.body.providers.rows) = 1
    /\ resp.body.providers.rows[1].id = "prov-0003"

\* C6: the Query Filter and the prompt endpoint have no error outcome: every
\* criteria value, also one that is no string, and every limit, also one that
\* is no integer, gives a result list; a well-typed unknown insurance or
\* specialty gives an empty one.
C6_NoErrorOutcome ==
    /\ req.op = "filter" =>
          /\ resp.exc = "none"
          /\ req.insurance = Str(<<"X">>) \/ req.specialty = Str(<<"x", "y", "z">>)
                => resp.val = <<>>
    /\ req.op = "prompt" =>
          /\ resp.exc = "none" /\ resp.status = 200
          /\ PromptCriteria.insurance = Str(<<"X">>) \/ PromptCriteria.specialty = Str(<<"x", "y", "z">>)
                => resp.body.providers.rows = <<>>

-----------------------------------------------------------------------------
(* /api/header and the placeholder endpoints *)

\* the page route each nav link opens
PagePath(link) ==
    IF link = sSecretSause THEN "/secret-sause"
    ELSE IF link = sAbout THEN "/about"
    ELSE "/privacy"

\* C7: the header endpoint answers without error exactly for the links
\* secret-sause, about, contact and privacy-policy; every other link value, a
\* missing one too, gets a 400; contact gets the contact payload with the
\* fixed email, the other three a nav payload with the link's page path.
C7_HeaderContract ==
    req.op = "header" =>
        LET link == req.payload.link
            valid == link.t = "str"
                     /\ link.s \in {sSecretSause, sAbout, sContact, sPrivacyPolicy}
        IN  /\ valid <=> resp.status = 200
            /\ ~valid => resp.status = 400
            /\ valid /\ link.s = sContact =>
                  resp.body.type = "contact-info" /\ resp.body.email = "skip.snow@gmail.com"
            /\ valid /\ link.s # sContact =>
                  resp.body.type = "nav" /\ resp.body.href = PagePath(link.s)

Placeholders == {"session-summary", "button-manager", "scrollable-output", "graphic-content"}

\* C8: a placeholder endpoint answers every request body, also an empty one
\* or one with a field of an unexpected type, with its fixed success payload.
C8_PlaceholdersNeverFail ==
    req.op \in Placeholders =>
        /\ resp.status = 200 /\ resp.exc = "none"
        /\ resp.body.type = req.op

-----------------------------------------------------------------------------
(* Construction *)

\* v is a string with a character that is not whitespace
NonBlankString(v) == v.t = "str" /\ \E i \in 1..Len(v.s) : ~IsSpace(v.s[i])

\* s, trimmed, is an optional sign and digits, "_" only between two digits
ReadsAsInteger(s) ==
    LET b == Trimmed(s)
        d == IF Len(b) > 0 /\ b[1] \in {"+", "-"} THEN SubSeq(b, 2, Len(b)) ELSE b
        digit(c) == c \in {"0", "1", "2", "3", "4", "5", "6", "7", "8", "9"}
    IN  /\ Len(d) > 0
        /\ \A i \in 1..Len(d) :
              \/ digit(d[i])
              \/ d[i] = "_" /\ i > 1 /\ i < Len(d) /\ digit(d[i - 1]) /\ digit(d[i + 1])

ValidHostAndPort ==
    /\ NonBlankString(ctor.argIP)
    /\ NonBlankString(ctor.argPort)
    /\ ReadsAsInteger(ctor.argPort.s)

\* C9: a host or port that is no string, empty or blank, or a port that does
\* not read as an integer, makes the constructor raise ValueError with no
\* listener thread started and no browser opened; a thread is started, and a
\* browser opened, only once both inputs passed validation.
C9_ValidationBeforeStart ==
    /\ ctor.pc # "new" /\ ~ValidHostAndPort =>
          ctor.raised = "ValueError" /\ serverThread = "none" /\ browserOpened = 0
    /\ serverThread # "none" \/ browserOpened > 0 =>
          ValidHostAndPort /\ ctor.raised = "none"

\* port "80a" with a good host: ValueError, nothing started
C9_Witness ==
    /\ ctor.pc = "raised" /\ ctor.raised = "ValueError"
    /\ NonBlankString(ctor.argIP)
    /\ ctor.argPort = Str(<<"8", "0", "a">>)
    /\ serverThread = "none" /\ browserOpened = 0

\* C16: construction starts one listener thread; every browser opening
\* follows a thread start; once the delay has passed the browser step can run
\* whatever the listener has done (nothing ties it to the socket being
\* bound); and a further call made while the thread is alive starts no
\* thread and opens no browser.
C16_ListenerStartup ==
    /\ [](/\ browserOpened =< ctor.threads
          /\ browserOpened > 0 => serverThread # "none"
          /\ ctor.recalls = 0 /\ ctor.pc \in {"sleeping", "done"} => ctor.threads = 1
          /\ ctor.recalls = 0 /\ ctor.pc = "done" => browserOpened = 1
          /\ ctor.pc = "sleeping" => ENABLED OpenBrowser)
    /\ [][ctor'.recalls # ctor.recalls /\ serverThread \in {"starting", "listening"} =>
            /\ serverThread' = serverThread
            /\ browserOpened' = browserOpened
            /\ ctor'.threads = ctor.threads
            /\ ctor'.pc = "done"]_vars

\* the browser has been opened and the listener has not bound its socket
C16_Witness ==
    /\ ctor.pc = "done" /\ ctor.recalls = 0
    /\ browserOpened = 1
    /\ serverThread = "starting"

-----------------------------------------------------------------------------
(* The database helper *)

\* C10: a helper constructed with a connection string whose client creation
\* or ping fails raises ConnectionError and leaves no live client: the
\* client field is not set and the client made for the ping is not open.
C10_FailedConnectLeavesNoClient ==
    \A h \in 1..MaxHelpers :
        mongo[h].phase = "failed" /\ mongo[h].cs.t = "str" /\ Len(mongo[h].cs.s) > 0 =>
            /\ mongo[h].raised = "ConnectionError"
            /\ ~mongo[h].client
            /\ mongo[h].obj # "open"

\* C11: used as a context manager the helper hands the block its validated
\* client, and however the with statement ends (normally, by an error of the
\* block, by a connection error on entry) the client is closed and the
\* instance holds no handle.
C11_ContextManagerReleases ==
    mongoRet.op = "with" =>
        /\ mongoRet.exc \in {"none", "BlockError", "ConnectionError"}
        /\ mongoRet.exc \in {"none", "BlockError"} =>
              mongoRet.ret = "open" /\ mongoRet.ping = "ok"
        /\ ~mongo[mongoRet.h].client
        /\ mongo[mongoRet.h].obj # "open"

\* C14: on a constructed helper getConnection returns the one client exactly
\* when the handle is present and the single ping of that call succeeded;
\* otherwise it raises ConnectionError at once (no ping without a handle, one
\* failed ping with one) and returns nothing; close leaves no handle and
\* raises nothing, the first time and every time after.
C14_GetConnectionAndClose ==
    /\ mongoRet.op = "getConnection" =>
          LET helper == mongo[mongoRet.h]
          IN  /\ mongoRet.exc \in {"none", "ConnectionError"}
              /\ mongoRet.exc = "none" <=> (helper.client /\ mongoRet.ping = "ok")
              /\ mongoRet.exc = "none" => mongoRet.ret = "open" /\ helper.obj = "open"
              /\ mongoRet.exc = "ConnectionError" =>
                    /\ mongoRet.ret = "none"
                    /\ mongoRet.ping = (IF helper.client THEN "fails" ELSE "none")
    /\ mongoRet.op = "close" =>
          /\ mongoRet.exc = "none"
          /\ ~mongo[mongoRet.h].client
          /\ mongo[mongoRet.h].obj = "closed"

\* getConnection after close: ConnectionError, no ping, nothing returned
C14_Witness ==
    /\ mongoRet.op = "getConnection" /\ mongoRet.exc = "ConnectionError"
    /\ mongoRet.ping = "none"
    /\ ~mongo[mongoRet.h].client /\ mongo[mongoRet.h].obj = "closed"

-----------------------------------------------------------------------------
(* The store across requests *)

-----------------------------------------------------------------------------
(* The logging bootstrap *)

C15_FlagDoesNotSerialise ==
    /\ (\E t \in LogThreads : logProcs.t[t].pc \notin {"idle", "returned", "raised"})
          /\ logState.setups = 0 => ~logState.configured
    /\ (\A t \in LogThreads : logProcs.t[t].pc = "returned" /\ logProcs.t[t].ranBody) =>
          /\ logState.setups = Cardinality(LogThreads)
          /\ logState.files = Cardinality(LogThreads)
          /\ logState.teesOut = Cardinality(LogThreads)
          /\ logState.teesErr = Cardinality(LogThreads)

\* both threads ran the setup: two files, stdout and stderr teed twice over
C15_Witness ==
    /\ \A t \in LogThreads : logProcs.t[t].pc = "returned" /\ logProcs.t[t].ranBody
    /\ logState.files = 2 /\ logState.setups = 2
    /\ Len(logState.stdout) = 2 /\ Len(logState.stderr) = 2

=============================================================================
